---- MODULE Spec2Model ----
(***************************************************************************)
(* The judging engine of CodingCompetitionBowl: utils/grader.py            *)
(* (grade_submission and the structured harness paths) and the sandboxed   *)
(* runners judge/cpp_runner.py and judge/python_runner.py.                 *)
(*                                                                         *)
(* One behaviour is one call of grade_submission.  The inputs (language,   *)
(* problem, candidate) are drawn in Init; what the compiler, the candidate *)
(* and the harness process do is chosen step by step by the environment.   *)
(* Text is a sequence of one-character strings, so that strip() and        *)
(* lower() are computed and not assumed.                                   *)
(***************************************************************************)
EXTENDS Integers, Sequences, FiniteSets, TLC

\* ------------------------------------------------------------------ bounds
MaxTests == 2
MaxPrints == 1

\* -------------------------------------------------------------------- text
Whitespace == {" ", "\t", "\n", "\r"}

UpperChars == <<"A", "C", "H", "J", "N", "O", "P", "T", "V", "Y">>
LowerChars == <<"a", "c", "h", "j", "n", "o", "p", "t", "v", "y">>

LowerChar(c) ==
    IF \E i \in DOMAIN UpperChars : UpperChars[i] = c
    THEN LowerChars[CHOOSE i \in DOMAIN UpperChars : UpperChars[i] = c]
    ELSE c

lower(s) == [i \in DOMAIN s |-> LowerChar(s[i])]

RECURSIVE lstrip(_)
lstrip(s) ==
    IF s # <<>> /\ Head(s) \in Whitespace THEN lstrip(Tail(s)) ELSE s

RECURSIVE rstrip(_)
rstrip(s) ==
    IF s # <<>> /\ s[Len(s)] \in Whitespace
    THEN rstrip(SubSeq(s, 1, Len(s) - 1))
    ELSE s

strip(s) == rstrip(lstrip(s))

Digits == {"0", "1", "2", "3", "4", "5", "6", "7", "8", "9"}

\* int(text) succeeds (does not raise ValueError) on the texts of the model
IsIntText(s) == s # <<>> /\ \A i \in DOMAIN s : s[i] \in Digits

\* str(i) for the case indices a harness prints
Numerals == <<"0", "1", "2", "3", "4", "5", "6", "7">>
IndexText(i) == Numerals[i + 1]

\* ------------------------------------------------------- language names
PYTHON == <<"p", "y", "t", "h", "o", "n">>
PY == <<"p", "y">>
JAVA == <<"j", "a", "v", "a">>
CPLUSPLUS == <<"c", "+", "+">>
CPP == <<"c", "p", "p">>
C == <<"c">>

RUNNERS_DefaultsToPython(lang_key) ==
    CASE lang_key = PYTHON -> "python_runner"
      [] lang_key = PY -> "python_runner"
      [] lang_key = JAVA -> "java_runner"
      [] lang_key = CPLUSPLUS -> "cpp_runner"
      [] lang_key = CPP -> "cpp_runner"
      [] lang_key = C -> "cpp_runner"
      [] OTHER -> "python_runner"

\* RUNNERS.get(lang_key): the runner's name, "none" when there is no entry
RUNNERS(lang_key) ==
    CASE lang_key = PYTHON -> "python_runner"
      [] lang_key = PY -> "python_runner"
      [] lang_key = JAVA -> "java_runner"
      [] lang_key = CPLUSPLUS -> "cpp_runner"
      [] lang_key = CPP -> "cpp_runner"
      [] lang_key = C -> "cpp_runner"
      [] OTHER -> "none"

\* the languages a submission may name
Languages ==
    { PYTHON, PY, JAVA, CPP, C,
      <<" ", "P", "y", "t", "h", "o", "n", "\n">>,
      <<"J", "A", "V", "A">>,
      <<"C", "+", "+", " ">>,
      <<"r", "u", "b", "y">>,
      <<>> }

\* ----------------------------------------------------------------- problem
\* raw fixtures: the expected output of the first is an integer after strip()
TestPool ==
    { [input |-> "in1", output |-> <<"4", "\n">>],
      [input |-> "in2", output |-> <<"a">>] }

\* ids 2 and 4 have a parse rule, id 11 has none
ProblemIds == {2, 4, 11}

\* what get_function_name finds in method_signatures for the language
Signatures == {"named", "absent"}

SeqsUpTo(S, n) == UNION { [1..m -> S] : m \in 0..n }

Problems ==
    [id : ProblemIds, tests : SeqsUpTo(TestPool, MaxTests), signature : Signatures]

\* the candidate's source: whether its own code compiles (compiled languages)
\* and whether it defines the callable the signature names
Candidates == [compiles : BOOLEAN, defines : BOOLEAN]

\* parse_case does not raise on this fixture (rules 2 and 4; ValueError otherwise)
parse_case_ok(problem_id, test) ==
    CASE problem_id = 2 -> IsIntText(strip(test.output))
      [] problem_id = 4 -> TRUE
      [] OTHER -> FALSE

RECURSIVE build_cases_from(_, _, _)

build_cases_from_ReturnsPartial(problem, i, cases) ==
    IF i > Len(problem.tests)
    THEN [ok |-> TRUE, cases |-> cases]
    ELSE IF ~parse_case_ok(problem.id, problem.tests[i])
    THEN [ok |-> TRUE, cases |-> cases]
    ELSE build_cases_from(problem, i + 1, Append(cases, [test |-> i]))

\* the for loop of build_structured_cases from test i on, inside its try:
\* except Exception: return None (ok = FALSE); return cases after the last test
build_cases_from(problem, i, cases) ==
    IF i > Len(problem.tests)
    THEN [ok |-> TRUE, cases |-> cases]
    ELSE IF ~parse_case_ok(problem.id, problem.tests[i])
    THEN [ok |-> FALSE, cases |-> <<>>]
    ELSE build_cases_from(problem, i + 1, Append(cases, [test |-> i]))

\* build_structured_cases: ok = FALSE is None; one case per test otherwise
build_structured_cases(problem) == build_cases_from(problem, 1, <<>>)

\* get_function_name: TRUE when a name is recovered, FALSE for None
get_function_name(problem) == problem.signature = "named"

\* ----------------------------------------------------------------- runners
CompilerStderr == "<compiler stderr>"
ProcessStderr == "<process stderr>"

\* what a candidate may write: the first fixture's answer, the second's with padding
Outputs == { <<"4">>, <<" ", "a", "\n">> }

Result(success, output, error, compile_error, timeout) ==
    [success |-> success, output |-> output, error |-> error,
     compile_error |-> compile_error, timeout |-> timeout]

Ran(res, compiled, executed) ==
    [raised |-> FALSE, res |-> res, compiled |-> compiled, executed |-> executed]

Raised(compiled, executed) ==
    [raised |-> TRUE, res |-> Result(FALSE, <<>>, "", FALSE, FALSE),
     compiled |-> compiled, executed |-> executed]

\* what the processes of one runner invocation do
RunEnvs(candidate) ==
    [compile : IF candidate.compiles THEN {"ok", "timeout"} ELSE {"fail", "timeout"},
     exec : {"exit0", "nonzero", "timeout"},
     output : Outputs,
     decodable : BOOLEAN]

cpp_run_ExecutesAfterCompileError(env) ==
    IF env.exec = "timeout"
    THEN Ran(Result(FALSE, <<>>, "Execution timed out", env.compile # "ok", TRUE), TRUE, TRUE)
    ELSE Ran(Result(env.exec = "exit0", env.output, ProcessStderr, env.compile # "ok", FALSE),
             TRUE, TRUE)

\* cpp_runner.run
cpp_run(env) ==
    IF env.compile = "timeout"
    THEN Ran(Result(FALSE, <<>>, "Compilation timed out", TRUE, TRUE), TRUE, FALSE)
    ELSE IF env.compile = "fail"
    THEN Ran(Result(FALSE, <<>>, CompilerStderr, TRUE, FALSE), TRUE, FALSE)
    ELSE IF env.exec = "timeout"
    THEN Ran(Result(FALSE, <<>>, "Execution timed out", FALSE, TRUE), TRUE, TRUE)
    ELSE IF ~env.decodable
    THEN Raised(TRUE, TRUE)
    ELSE Ran(Result(env.exec = "exit0", env.output, ProcessStderr, FALSE, FALSE), TRUE, TRUE)

\* python_runner.run
python_run(env) ==
    IF env.exec = "timeout"
    THEN Ran(Result(FALSE, <<>>, "Execution timed out", FALSE, TRUE), FALSE, TRUE)
    ELSE IF ~env.decodable
    THEN Raised(FALSE, TRUE)
    ELSE Ran(Result(env.exec = "exit0", env.output, ProcessStderr, FALSE, FALSE), FALSE, TRUE)

\* java_runner.run (the compiled-managed runner of the design, section 4.4)
java_run(env) ==
    IF env.compile = "timeout"
    THEN Ran(Result(FALSE, <<>>, "Compilation timed out", TRUE, TRUE), TRUE, FALSE)
    ELSE IF env.compile = "fail"
    THEN Ran(Result(FALSE, <<>>, CompilerStderr, TRUE, FALSE), TRUE, FALSE)
    ELSE IF env.exec = "timeout"
    THEN Ran(Result(FALSE, <<>>, "Execution timed out", FALSE, TRUE), TRUE, TRUE)
    ELSE Ran(Result(env.exec = "exit0", env.output, ProcessStderr, FALSE, FALSE), TRUE, TRUE)

runner_call(runner, env) ==
    CASE runner = "cpp_runner" -> cpp_run(env)
      [] runner = "python_runner" -> python_run(env)
      [] OTHER -> java_run(env)

\* ------------------------------------------------------------ test outcomes
RanKeys == {"input", "expected", "output", "error", "passed", "compile_error", "timeout"}
SkippedKeys == {"input", "expected", "output", "passed", "error"}

\* res.get("success") and output_clean == expected_clean
test_passed_ComparesRaw(res, test) == res.success /\ res.output = test.output

test_passed(res, test) == res.success /\ strip(res.output) = strip(test.output)

\* the detail appended for a test that was run (grade_submission, lines 163-173)
RanDetail(test, res) ==
    [input |-> test.input, expected |-> strip(test.output), output |-> res.output,
     error |-> res.error, passed |-> test_passed(res, test),
     compile_error |-> res.compile_error, timeout |-> res.timeout, keys |-> RanKeys]

\* the detail appended once compile_failure is set (lines 148-156)
SkippedDetail(test) ==
    [input |-> test.input, expected |-> strip(test.output), output |-> <<>>,
     error |-> "Compilation failed", passed |-> FALSE,
     compile_error |-> FALSE, timeout |-> FALSE, keys |-> SkippedKeys]

CountPassed_CountsEveryRun(passed_so_far, passed_now) == passed_so_far + 1

\* if test_passed: passed += 1
CountPassed(passed_so_far, passed_now) ==
    IF passed_now THEN passed_so_far + 1 ELSE passed_so_far

NextCompileFailure_NeverSet(failure, res) == failure

\* if res.get("compile_error"): compile_failure = True
NextCompileFailure(failure, res) == failure \/ res.compile_error

\* ------------------------------------------------------------------ reports
ReportKeys == {"passed", "total", "details", "compile_error"}

NoReport ==
    [kind |-> "none", passed |-> 0, total |-> 0, details |-> <<>>,
     compile_error |-> FALSE, error |-> <<>>, keys |-> {}]

GradeReport(n_passed, total, details, compile_error) ==
    [kind |-> "report", passed |-> n_passed, total |-> total, details |-> details,
     compile_error |-> compile_error, error |-> <<>>, keys |-> ReportKeys]

\* {"error": f"Unsupported language: {language}"}
UnsupportedLanguage(name) ==
    [kind |-> "error", passed |-> 0, total |-> 0, details |-> <<>>,
     compile_error |-> FALSE, error |-> <<"Unsupported language: ">> \o name,
     keys |-> {"error"}]

\* ------------------------------------------------------- harness line protocol
\* a stdout line is its text split at "|", who wrote it, and whether its bytes are UTF-8
Line(parts, src, decodable) == [parts |-> parts, src |-> src, decodable |-> decodable]

HarnessLine(parts) == Line(parts, "harness", TRUE)

\* what the candidate's own code may write to the stdout it shares with the harness
CandidateLines ==
    { Line(<<"RESULT", "0", "PASS">>, "candidate", TRUE),
      Line(<<"RESULT", "x", "PASS">>, "candidate", TRUE),
      Line(<<"RESULT", "0">>, "candidate", TRUE),
      Line(<<"debug">>, "candidate", TRUE),
      Line(<<"bytes">>, "candidate", FALSE) }

StructuredKeys == {"passed", "error"}

Detail(is_passed, error) ==
    [passed |-> is_passed, error |-> error, compile_error |-> FALSE, timeout |-> FALSE,
     keys |-> StructuredKeys]

\* line.startswith("RESULT|")
IsResultLine(parts) == Len(parts) >= 2 /\ parts[1] = "RESULT"

\* int(parts[1]) raises ValueError, or parts[2] raises IndexError (an index of the
\* model is one character long)
LineRaises(parts) == ~IsIntText(<<parts[2]>>) \/ Len(parts) < 3

\* grade_structured_python, lines 353-364 (no status of the model other than FAIL
\* starts with "FAIL")
python_detail(parts) ==
    LET status == parts[3] IN
    IF status = "PASS" THEN Detail(TRUE, "")
    ELSE IF status = "FAIL"
    THEN Detail(FALSE, IF Len(parts) >= 5 THEN "Got <actual> Expected <expected>" ELSE "Mismatch")
    ELSE Detail(FALSE, IF Len(parts) > 3 THEN parts[4] ELSE "Error")

\* grade_structured_java, lines 408-418
java_detail(parts) ==
    LET status == parts[3] IN
    IF status = "PASS" THEN Detail(TRUE, "")
    ELSE IF status = "FAIL" THEN Detail(FALSE, "Got <actual> Expected <expected>")
    ELSE Detail(FALSE, IF Len(parts) > 3 THEN parts[4] ELSE "Runtime error")

line_detail(parts, lang) == IF lang = PYTHON THEN python_detail(parts) ELSE java_detail(parts)

\* the loop over stdout_lines: the details in the order the lines appear, the count
\* of PASS lines, and whether a line made the loop raise
RECURSIVE parse_lines(_, _, _)
parse_lines(lines, lang, acc) ==
    IF lines = <<>> THEN acc
    ELSE LET parts == Head(lines).parts IN
         IF ~IsResultLine(parts) THEN parse_lines(Tail(lines), lang, acc)
         ELSE IF LineRaises(parts) THEN [acc EXCEPT !.raised = TRUE]
         ELSE LET d == line_detail(parts, lang) IN
              parse_lines(Tail(lines), lang,
                          [acc EXCEPT !.results = Append(@, d),
                                      !.passed = CountPassed(@, d.passed)])

ParseStart == [raised |-> FALSE, results |-> <<>>, passed |-> 0]

\* proc.stdout.decode() raises UnicodeDecodeError
DecodeRaises(lines) == \E i \in DOMAIN lines : ~lines[i].decodable

SyntheticCompileReport_OneDetailPerCase(total) ==
    GradeReport(0, total,
                [i \in 1..total |->
                    [passed |-> FALSE, error |-> CompilerStderr, compile_error |-> TRUE,
                     timeout |-> FALSE, keys |-> {"passed", "error", "compile_error"}]],
                TRUE)

\* the report for a batch compile failure (grade_structured_java, lines 385-393)
SyntheticCompileReport(total) ==
    GradeReport(0, total,
                << [passed |-> FALSE, error |-> CompilerStderr, compile_error |-> TRUE,
                    timeout |-> FALSE, keys |-> {"passed", "error", "compile_error"}] >>,
                TRUE)

\* compile_error of a structured report: proc.returncode != 0 for Python, False for Java
structured_compile_error(lang, returncode) == lang = PYTHON /\ returncode # 0

\* what the candidate's function does in one case of the harness loop
CaseBehaviours == {"expected", "other", "raise", "exit0", "exit1", "hang"}

\* what importing the candidate's module does
ImportBehaviours == {"ok", "raise", "exit0", "hang"}

\* the RESULT line a harness prints for case index idx
ResultLine(idx, status) ==
    CASE status = "PASS" -> HarnessLine(<<"RESULT", IndexText(idx), "PASS">>)
      [] status = "FAIL" ->
            HarnessLine(<<"RESULT", IndexText(idx), "FAIL", "<actual>", "<expected>">>)
      [] OTHER -> HarnessLine(<<"RESULT", IndexText(idx), "ERROR", "<kind>:<message>">>)

\* ------------------------------------------------------------------- state
VARIABLES
    language,           \* the language text of the submission
    problem,            \* the problem: id, tests, signature
    candidate,          \* the candidate's source
    pc,                 \* where the call of grade_submission is
    lang_key,           \* (language or "").strip().lower()
    structured_cases,   \* build_structured_cases(problem)
    runner,             \* RUNNERS.get(lang_key)
    k,                  \* the test the stdin loop is at (1-based)
    results,            \* results of the stdin loop
    passed,             \* passed of the stdin loop
    compile_failure,    \* compile_failure of the stdin loop
    stdout,             \* what the harness process has written
    hidx,               \* the case the harness loop is at (1-based)
    returncode,         \* exit status of the harness process
    prints,             \* lines the candidate's code has written to stdout
    report,             \* what grade_submission returned
    path,               \* which path built the report
    fellBack,           \* the structured path raised and was abandoned
    verdicts,           \* the harness's own verdict of each case it finished
    procs,              \* processes started: compiler, candidate, harness
    runs,               \* the runner invocations of the stdin loop
    workdirs,           \* the working directories of this call that exist
    made,               \* how many working directories this call has created
    compile_proc        \* how javac ended in grade_structured_java, "none" before

\* the state of one call of grade_submission
grading ==
    <<language, problem, candidate, pc, lang_key, structured_cases, runner, k, results,
      passed, compile_failure, stdout, hidx, returncode, prints, report, path, fellBack,
      verdicts, procs, runs, workdirs, made, compile_proc>>

\* the state the other parts of the program keep, each studied on its own
VARIABLES
    fs,                 \* the temporary directories of the machine and their files
    calls,              \* the concurrent invocations that share them
    timer_state,        \* app.timer_state
    timer_task,         \* app.timer_task: the task last started (0: None)
    tasks,              \* the timer_loop tasks that are alive
    pending,            \* start_timer calls that left the lock and have not returned
    clock,              \* time.monotonic()
    spawned,            \* how many timer_loop tasks were started
    submission,         \* the /api/submit request under way, or the last one answered
    bp_language,        \* apply_language_boilerplate: its language argument
    bp_code,            \* apply_language_boilerplate: its code argument
    prepared,           \* apply_language_boilerplate: what it returned
    prepared_again,     \* what it returned when given prepared
    bp_pc,              \* apply_language_boilerplate: called, returned, applied again
    value,              \* a case value (an argument or the expected result)
    target,             \* the language of the harness the value is written into
    literal,            \* the literal written into the harness source
    read_back,          \* what the literal denotes in the target language
    lit_pc,             \* value chosen, literal rendered, literal read
    submissions,        \* the rows of table submissions of one user, in insertion order
    scores,             \* the user's row of table scores: <<total_score>>, or <<>>
    requests            \* the submit requests of that user, past grading

concurrent_state == <<fs, calls>>
timer == <<timer_state, timer_task, tasks, pending, clock, spawned, submission>>

boilerplate == <<bp_language, bp_code, prepared, prepared_again, bp_pc>>

literals == <<value, target, literal, read_back, lit_pc>>

scoring == <<submissions, scores, requests>>

aside == <<concurrent_state, timer, boilerplate, literals, scoring>>

vars == <<grading, aside>>

outside_concurrent == <<grading, timer, boilerplate, literals, scoring>>
outside_timer == <<grading, concurrent_state, boilerplate, literals, scoring>>
outside_boilerplate == <<grading, concurrent_state, timer, literals, scoring>>
outside_literals == <<grading, concurrent_state, timer, boilerplate, scoring>>
outside_scoring == <<grading, concurrent_state, timer, boilerplate, literals>>

\* no concurrent invocation is under way
ConcurrentIdle == fs = <<>> /\ calls = <<>>

\* ends_at = None
NoEnd == -1

\* no request yet: no snapshot taken, nothing called, nothing answered
NoSubmission == [pc |-> "none", snapshot |-> "none", called |-> {}, response |-> 0]

\* the module state of app.py after import; the clock has some positive reading
TimerIdle ==
    /\ timer_state = [status |-> "stopped", remaining |-> 0, duration |-> 0,
                      version |-> 0, ends_at |-> NoEnd]
    /\ timer_task = 0
    /\ tasks = {}
    /\ pending = {}
    /\ clock = 1
    /\ spawned = 0
    /\ submission = NoSubmission

\* apply_language_boilerplate is not being studied
BoilerplateIdle ==
    /\ bp_language = <<>>
    /\ bp_code = <<>>
    /\ prepared = <<>>
    /\ prepared_again = <<>>
    /\ bp_pc = "idle"

\* no harness is being generated
LiteralsIdle ==
    /\ value = <<>>
    /\ target = "none"
    /\ literal = <<>>
    /\ read_back = <<>>
    /\ lit_pc = "idle"

\* the tables as init_db leaves them, and no request
ScoresIdle ==
    /\ submissions = <<>>
    /\ scores = <<>>
    /\ requests = <<>>

AsideIdle == ConcurrentIdle /\ TimerIdle /\ BoilerplateIdle /\ LiteralsIdle /\ ScoresIdle

inputs == <<language, problem, candidate>>
stdin_locals == <<k, results, passed, compile_failure>>
harness_state == <<stdout, hidx, returncode, prints, verdicts>>
dirs_state == <<workdirs, made>>

NoProcs == [compiler |-> 0, candidate |-> 0, harness |-> 0, expired |-> 0]

\* subprocess.run of the harness raised TimeoutExpired
Expired == [procs EXCEPT !.expired = @ + 1]

Started(kind) == [procs EXCEPT ![kind] = @ + 1]

\* tempfile.TemporaryDirectory() entered: the n-th directory of the call is new
TemporaryDirectory(dirs, n) == dirs \cup {n}

cleanup_KeepsDirectory(dirs, d) == dirs

\* the with block is left, by return or by exception: the directory is removed
cleanup(dirs, d) == dirs \ {d}

EnterWith ==
    /\ workdirs' = TemporaryDirectory(workdirs, made + 1)
    /\ made' = made + 1

LeaveWith ==
    /\ workdirs' = cleanup(workdirs, made)
    /\ UNCHANGED made

Init ==
    /\ language \in Languages
    /\ problem \in Problems
    /\ candidate \in Candidates
    /\ pc = "start"
    /\ lang_key = <<>>
    /\ structured_cases = [ok |-> FALSE, cases |-> <<>>]
    /\ runner = "none"
    /\ k = 1
    /\ results = <<>>
    /\ passed = 0
    /\ compile_failure = FALSE
    /\ stdout = <<>>
    /\ hidx = 0
    /\ returncode = 0
    /\ prints = 0
    /\ report = NoReport
    /\ path = "none"
    /\ fellBack = FALSE
    /\ verdicts = <<>>
    /\ procs = NoProcs
    /\ runs = <<>>
    /\ workdirs = {}
    /\ made = 0
    /\ compile_proc = "none"
    /\ AsideIdle

\* no call of grade_submission is under way
GradingIdle ==
    /\ language = <<>>
    /\ problem = [id |-> 11, tests |-> <<>>, signature |-> "absent"]
    /\ candidate = [compiles |-> FALSE, defines |-> FALSE]
    /\ pc = "idle"
    /\ lang_key = <<>>
    /\ structured_cases = [ok |-> FALSE, cases |-> <<>>]
    /\ runner = "none"
    /\ k = 1
    /\ results = <<>>
    /\ passed = 0
    /\ compile_failure = FALSE
    /\ stdout = <<>>
    /\ hidx = 0
    /\ returncode = 0
    /\ prints = 0
    /\ report = NoReport
    /\ path = "none"
    /\ fellBack = FALSE
    /\ verdicts = <<>>
    /\ procs = NoProcs
    /\ runs = <<>>
    /\ workdirs = {}
    /\ made = 0
    /\ compile_proc = "none"

SupportsStructured(key) == key \in {JAVA, PYTHON}

\* if structured_cases and lang_key in {"java", "python"}
chooses_structured(key, extracted) ==
    extracted.ok /\ extracted.cases # <<>> /\ SupportsStructured(key)

\* grade_submission, lines 127-135: normalise the language, extract the cases,
\* choose the strategy
Begin ==
    /\ pc = "start"
    /\ lang_key' = lower(strip(language))
    /\ structured_cases' = build_structured_cases(problem)
    /\ pc' = IF chooses_structured(lang_key', structured_cases')
             THEN "grade_structured"
             ELSE "lookup_runner"
    /\ UNCHANGED <<aside, inputs, compile_proc, runner, stdin_locals, harness_state, report, path, fellBack,
                   procs, runs, dirs_state>>

\* except Exception: pass -- every structured result is dropped
FallBack ==
    /\ pc' = "lookup_runner"
    /\ fellBack' = TRUE
    /\ stdout' = <<>>
    /\ hidx' = 0
    /\ returncode' = 0
    /\ prints' = 0
    /\ verdicts' = <<>>

\* grade_structured, lines 294-304, up to the first subprocess
GradeStructured ==
    /\ pc = "grade_structured"
    /\ IF ~get_function_name(problem) \/ problem.id = 0
       THEN FallBack /\ UNCHANGED <<procs, dirs_state>>
       ELSE /\ pc' = IF lang_key = PYTHON THEN "py_import" ELSE "javac"
            /\ procs' = IF lang_key = PYTHON THEN Started("harness") ELSE procs
            /\ EnterWith
            /\ UNCHANGED <<fellBack, harness_state>>
    /\ UNCHANGED <<aside, inputs, compile_proc, lang_key, structured_cases, runner, stdin_locals, report, path,
                   runs>>

\* grade_structured_java, lines 378-393: javac Main.java Harness.java
Javac ==
    /\ pc = "javac"
    /\ \E outcome \in IF candidate.compiles /\ candidate.defines
                      THEN {"ok", "timeout"} ELSE {"fail", "timeout"} :
         /\ compile_proc' = outcome
         /\ CASE outcome = "timeout" ->
                /\ FallBack
                /\ LeaveWith
                /\ procs' = Started("compiler")
                /\ UNCHANGED <<report, path>>
           [] outcome = "fail" ->
                /\ report' = SyntheticCompileReport(Len(structured_cases.cases))
                /\ path' = "synthetic"
                /\ pc' = "returned"
                /\ LeaveWith
                /\ procs' = Started("compiler")
                /\ UNCHANGED <<fellBack, harness_state>>
           [] OTHER ->
                /\ pc' = "harness_loop"
                /\ hidx' = 1
                /\ procs' = [procs EXCEPT !.compiler = @ + 1, !.harness = @ + 1]
                /\ UNCHANGED <<report, path, fellBack, stdout, returncode, prints, verdicts,
                               dirs_state>>
    /\ UNCHANGED <<aside, inputs, lang_key, structured_cases, runner, stdin_locals, runs>>

\* the Python harness up to its loop: import solution, getattr (lines 316-323)
PyImport ==
    /\ pc = "py_import"
    /\ \E b \in ImportBehaviours :
         CASE b = "hang" -> FallBack /\ LeaveWith /\ procs' = Expired
           [] b = "raise" ->
                /\ returncode' = 1
                /\ pc' = "parse"
                /\ UNCHANGED <<fellBack, stdout, hidx, prints, verdicts, dirs_state, procs>>
           [] b = "exit0" ->
                /\ returncode' = 0
                /\ pc' = "parse"
                /\ UNCHANGED <<fellBack, stdout, hidx, prints, verdicts, dirs_state, procs>>
           [] OTHER ->
                IF candidate.defines
                THEN /\ hidx' = 1
                     /\ pc' = "harness_loop"
                     /\ UNCHANGED <<fellBack, stdout, returncode, prints, verdicts,
                                    dirs_state, procs>>
                ELSE /\ stdout' = Append(stdout,
                            HarnessLine(<<"RESULT", "0", "ERROR", "Function not found">>))
                     /\ returncode' = 0
                     /\ pc' = "parse"
                     /\ UNCHANGED <<fellBack, hidx, prints, verdicts, dirs_state, procs>>
    /\ UNCHANGED <<aside, inputs, compile_proc, lang_key, structured_cases, runner,
                   stdin_locals, report, path, runs>>

\* the candidate's code writes a line of its own while it runs
CandidatePrint ==
    /\ \/ pc = "py_import"
       \/ pc = "harness_loop" /\ hidx <= Len(structured_cases.cases)
    /\ prints < MaxPrints
    /\ \E line \in CandidateLines : stdout' = Append(stdout, line)
    /\ prints' = prints + 1
    /\ UNCHANGED <<aside, inputs, compile_proc, pc, lang_key, structured_cases, runner, stdin_locals, hidx,
                   returncode, report, path, fellBack, verdicts, procs, runs, dirs_state>>

Finished(status) ==
    /\ stdout' = Append(stdout, ResultLine(hidx - 1, status))
    /\ verdicts' = Append(verdicts, status)
    /\ hidx' = hidx + 1
    /\ UNCHANGED <<pc, fellBack, returncode, prints, dirs_state, procs>>

Exited(status) ==
    /\ returncode' = status
    /\ pc' = "parse"
    /\ UNCHANGED <<fellBack, stdout, hidx, prints, verdicts, dirs_state, procs>>

\* one iteration of the harness loop (Python lines 325-334, Java lines 507-519)
HarnessCase ==
    /\ pc = "harness_loop"
    /\ hidx <= Len(structured_cases.cases)
    /\ \E b \in CaseBehaviours :
         CASE b = "expected" -> Finished("PASS")
           [] b = "other" -> Finished("FAIL")
           [] b = "raise" -> Finished("ERROR")
           [] b = "exit0" -> Exited(0)
           [] b = "exit1" -> Exited(1)
           [] OTHER -> FallBack /\ LeaveWith /\ procs' = Expired
    /\ UNCHANGED <<aside, inputs, compile_proc, lang_key, structured_cases, runner,
                   stdin_locals, report, path, runs>>

\* the harness loop is over and the process exits
HarnessExit ==
    /\ pc = "harness_loop"
    /\ hidx > Len(structured_cases.cases)
    /\ returncode' = 0
    /\ pc' = "parse"
    /\ UNCHANGED <<aside, inputs, compile_proc, lang_key, structured_cases, runner, stdin_locals, stdout, hidx,
                   prints, report, path, fellBack, verdicts, procs, runs, dirs_state>>

\* the orchestrator reads the harness's stdout (Python lines 346-366, Java 402-420)
ParseOutput ==
    /\ pc = "parse"
    /\ LET parsed == parse_lines(stdout, lang_key, ParseStart) IN
       IF DecodeRaises(stdout) \/ parsed.raised
       THEN FallBack /\ UNCHANGED <<report, path>>
       ELSE /\ report' = GradeReport(parsed.passed, Len(structured_cases.cases),
                                     parsed.results,
                                     structured_compile_error(lang_key, returncode))
            /\ path' = "structured"
            /\ pc' = "returned"
            /\ UNCHANGED <<fellBack, harness_state>>
    /\ LeaveWith
    /\ UNCHANGED <<aside, inputs, compile_proc, lang_key, structured_cases, runner, stdin_locals, procs, runs>>

\* grade_submission, lines 137-144
LookupRunner ==
    /\ pc = "lookup_runner"
    /\ runner' = RUNNERS(lang_key)
    /\ IF runner' = "none"
       THEN /\ report' = UnsupportedLanguage(language)
            /\ pc' = "returned"
       ELSE /\ pc' = "stdin_loop"
            /\ UNCHANGED report
    /\ UNCHANGED <<aside, inputs, compile_proc, lang_key, structured_cases, stdin_locals, harness_state, path,
                   fellBack, procs, runs, dirs_state>>

\* one iteration of the loop over tests (lines 146-177)
StdinTest ==
    /\ pc = "stdin_loop"
    /\ k <= Len(problem.tests)
    /\ LET test == problem.tests[k] IN
       IF compile_failure
       THEN /\ results' = Append(results, SkippedDetail(test))
            /\ k' = k + 1
            /\ UNCHANGED <<pc, passed, compile_failure, procs, runs, dirs_state>>
       ELSE \E env \in RunEnvs(candidate) :
              LET r == runner_call(runner, env) IN
              /\ workdirs' = cleanup(TemporaryDirectory(workdirs, made + 1), made + 1)
              /\ made' = made + 1
              /\ procs' = [procs EXCEPT
                             !.compiler = IF r.compiled THEN @ + 1 ELSE @,
                             !.candidate = IF r.executed THEN @ + 1 ELSE @]
              /\ runs' = Append(runs, [test |-> k, stdin |-> test.input,
                                       raised |-> r.raised, res |-> r.res,
                                       executed |-> r.executed,
                                       compile |-> IF r.compiled THEN env.compile ELSE "none",
                                       exec |-> IF r.executed THEN env.exec ELSE "none"])
              /\ IF r.raised
                 THEN /\ pc' = "raised"
                      /\ UNCHANGED stdin_locals
                 ELSE /\ results' = Append(results, RanDetail(test, r.res))
                      /\ compile_failure' = NextCompileFailure(compile_failure, r.res)
                      /\ passed' = CountPassed(passed, test_passed(r.res, test))
                      /\ k' = k + 1
                      /\ UNCHANGED pc
    /\ UNCHANGED <<aside, inputs, compile_proc, lang_key, structured_cases, runner, harness_state, report, path,
                   fellBack>>

\* lines 179-184
StdinReturn ==
    /\ pc = "stdin_loop"
    /\ k > Len(problem.tests)
    /\ report' = GradeReport(passed, Len(problem.tests), results, compile_failure)
    /\ path' = "stdin"
    /\ pc' = "returned"
    /\ UNCHANGED <<aside, inputs, compile_proc, lang_key, structured_cases, runner, stdin_locals, harness_state,
                   fellBack, procs, runs, dirs_state>>

Next ==
    \/ Begin
    \/ GradeStructured
    \/ Javac
    \/ PyImport
    \/ CandidatePrint
    \/ HarnessCase
    \/ HarnessExit
    \/ ParseOutput
    \/ LookupRunner
    \/ StdinTest
    \/ StdinReturn

Spec == Init /\ [][Next]_vars

\* ------------------------------------------------------------------ claims
Returned == pc = "returned" /\ report.kind = "report"

NumPassed(details) == Cardinality({i \in DOMAIN details : details[i].passed})

\* C1: every returned report has len(details) = total = len(problem.tests), the
\* synthetic report of a structured batch compile failure excepted, whatever the
\* harness process does.
C1_DetailsMatchTests ==
    Returned /\ path # "synthetic" =>
        /\ Len(report.details) = report.total
        /\ report.total = Len(problem.tests)

\* C2: in every returned report (stdin, structured Python, structured Java,
\* synthetic) passed is the number of details whose passed field is true.
C2_PassedCountsDetails ==
    Returned => report.passed = NumPassed(report.details)

\* a structured report that mixes a passed and a failed case has been returned
C2_Witness ==
    /\ Returned
    /\ path = "structured"
    /\ report.passed = 1
    /\ Len(report.details) = 2

\* C3: once a step of the structured path has raised, the call ends by returning
\* the stdin path's report with passed, total, details and compile_error, one
\* detail per test; it does not end by raising.
C3_FallbackReturnsReport ==
    fellBack /\ pc \in {"returned", "raised"} =>
        /\ pc = "returned"
        /\ path = "stdin"
        /\ report.kind = "report"
        /\ report.keys = ReportKeys
        /\ Len(report.details) = Len(problem.tests)

\* C4: when the candidate does not define the callable the signature names, the
\* returned report is the stdin path's, never one built by the structured path.
C4_MissingCallableFallsBack ==
    Returned /\ ~candidate.defines => path = "stdin"

RunnerKeys == {PYTHON, PY, JAVA, CPLUSPLUS, CPP, C}

\* C5: a language that, trimmed and lower-cased, is no key of RUNNERS gets the
\* error-only result naming it, with no passed/total/details, and no compiler,
\* candidate or harness process is started, whatever the problem is.
C5_UnsupportedLanguageRunsNothing ==
    lower(strip(language)) \notin RunnerKeys =>
        /\ procs = NoProcs
        /\ runs = <<>>
        /\ pc \in {"start", "lookup_runner", "returned"}
        /\ pc = "returned" =>
              /\ report.kind = "error"
              /\ report.keys = {"error"}
              /\ report.error = <<"Unsupported language: ">> \o language

\* an unsupported language was refused for a problem that has structured cases
C5_Witness ==
    /\ pc = "returned"
    /\ report.kind = "error"
    /\ language = <<"r", "u", "b", "y">>
    /\ problem.id = 4
    /\ Len(problem.tests) = 2
    /\ problem.signature = "named"

\* C6: on the stdin path, once the runner's result for test k has compile_error
\* set the runner is not invoked again; every test after k gets a detail with
\* passed = false and error "Compilation failed", and the report has
\* compile_error = true.
C6_CompileErrorStopsRuns ==
    \A i \in DOMAIN runs :
        ~runs[i].raised /\ runs[i].res.compile_error =>
            /\ i = Len(runs)
            /\ \A j \in DOMAIN results :
                  j > runs[i].test =>
                      /\ results[j].passed = FALSE
                      /\ results[j].error = "Compilation failed"
            /\ pc = "returned" =>
                  /\ report.kind = "report"
                  /\ report.compile_error
                  /\ report.details = results
                  /\ Len(report.details) = Len(problem.tests)

\* the first of two tests hit a compile error and the report was returned
C6_Witness ==
    /\ Returned
    /\ path = "stdin"
    /\ Len(problem.tests) = 2
    /\ Len(runs) = 1
    /\ runs[1].res.compile_error

CompiledRunners == {"cpp_runner", "java_runner"}

\* the compiler's stderr, or the text that stands for it when the compiler timed out
Diagnostics == {CompilerStderr, "Compilation timed out"}

\* a candidate whose source does not compile was graded on the stdin path against
\* at least one test
FailedToCompile ==
    /\ Returned
    /\ path = "stdin"
    /\ runner \in CompiledRunners
    /\ ~candidate.compiles
    /\ runs # <<>>

\* C7 as stated: when a compiled-language candidate fails to compile, the report
\* has compile_error = true, the binary is never executed, and every entry of
\* details, one per test, carries the compiler's diagnostic text as its error.
C7_EveryDetailCarriesDiagnostic ==
    FailedToCompile =>
        /\ report.compile_error
        /\ procs.candidate = 0
        /\ Len(report.details) = Len(problem.tests)
        /\ \A i \in DOMAIN report.details : report.details[i].error \in Diagnostics

\* C7 as amended: when a compiled-language candidate whose source does not compile
\* is graded on the stdin path, the report has compile_error = true, the binary is
\* never executed, details has one entry per test and none passed; the entry of
\* the first test carries the compiler's diagnostic text and has compile_error
\* set; every later entry carries "Compilation failed".
C7_FirstDetailCarriesDiagnostic ==
    FailedToCompile =>
        /\ report.compile_error
        /\ procs.candidate = 0
        /\ Len(report.details) = Len(problem.tests)
        /\ report.details[1].error \in Diagnostics
        /\ report.details[1].compile_error
        /\ \A i \in DOMAIN report.details :
              /\ ~report.details[i].passed
              /\ i > 1 => report.details[i].error = "Compilation failed"

\* a C++ candidate with a compile error was graded against two tests
C7_Witness ==
    /\ FailedToCompile
    /\ runner = "cpp_runner"
    /\ Len(problem.tests) = 2
    /\ report.details[1].error = CompilerStderr
    /\ report.details[2].error = "Compilation failed"

\* C8: details[i] is the outcome of problem.tests[i]: on the stdin path it is the
\* detail of that test's input; on the structured paths a detail says passed
\* exactly when the harness found case i to pass, and every case the harness
\* finished has its detail at its own position.
C8_DetailsAlignWithTests ==
    /\ Returned /\ path = "stdin" =>
          \A i \in DOMAIN report.details :
              /\ i <= Len(problem.tests)
              /\ report.details[i].input = problem.tests[i].input
    /\ Returned /\ path = "structured" =>
          /\ \A i \in DOMAIN report.details :
                report.details[i].passed => i <= Len(verdicts) /\ verdicts[i] = "PASS"
          /\ \A i \in DOMAIN verdicts :
                /\ i <= Len(report.details)
                /\ report.details[i].passed = (verdicts[i] = "PASS")

\* C9: report.compile_error is true exactly when some case reported a compile
\* error; a candidate that only fails at run time never yields it.
C9_CompileErrorMeansBuildFailure ==
    Returned =>
        (report.compile_error <=>
            \E i \in DOMAIN report.details : report.details[i].compile_error)

\* C10: every invocation of cpp_runner.run and python_runner.run returns, and
\* what it returns is one of compile error, timeout, success, failure with
\* non-zero exit: success only on exit status zero and then without compile_error
\* or timeout; compile_error never after the binary ran; timeout with
\* compile_error only when the compiler timed out.
C10_RunReturnsOneOutcome ==
    runner \in {"cpp_runner", "python_runner"} =>
        \A i \in DOMAIN runs :
            LET res == runs[i].res IN
            /\ ~runs[i].raised
            /\ res.success => runs[i].exec = "exit0" /\ ~res.compile_error /\ ~res.timeout
            /\ res.compile_error => ~runs[i].executed /\ ~res.success
            /\ res.compile_error /\ res.timeout => runs[i].compile = "timeout"
            /\ res.timeout /\ ~res.compile_error => runs[i].exec = "timeout"
            /\ ~res.success /\ ~res.compile_error /\ ~res.timeout =>
                  runs[i].exec = "nonzero"

\* C11: every working directory a runner invocation or a structured grading call
\* created is gone once that invocation or call has returned or raised: none
\* exists between two steps of the stdin path, after the structured path was
\* left, or after grade_submission ended.
C11_WorkdirsDeleted ==
    pc \in {"lookup_runner", "stdin_loop", "returned", "raised"} => workdirs = {}

\* the structured path raised while parsing the harness output, the stdin path ran
\* a test, and the call ended
C11_Witness ==
    /\ pc \in {"returned", "raised"}
    /\ fellBack
    /\ procs.harness = 1
    /\ made >= 2

\* C13: in stdin grading of a compiled language the compiler is invoked at most
\* once per grade_submission call (here for the native runner, cpp_runner).
C13_CompilesAtMostOnce ==
    runner = "cpp_runner" =>
        Cardinality({i \in DOMAIN runs : runs[i].compile # "none"}) <= 1

OneStrategy(details) ==
    \/ \A i \in DOMAIN details :
          details[i].keys \in {StructuredKeys, {"passed", "error", "compile_error"}}
    \/ \A i \in DOMAIN details : details[i].keys \in {RanKeys, SkippedKeys}

\* C14: build_structured_cases gives one case per test, in test order, or None
\* when some test does not parse; never a shorter list. The details of a report
\* all come from one strategy.
C14_AllOrNothing ==
    pc # "start" =>
        /\ structured_cases.ok =>
              /\ Len(structured_cases.cases) = Len(problem.tests)
              /\ \A i \in DOMAIN structured_cases.cases : structured_cases.cases[i].test = i
        /\ ~structured_cases.ok <=>
              \E i \in DOMAIN problem.tests : ~parse_case_ok(problem.id, problem.tests[i])
        /\ Returned /\ report.keys = ReportKeys => OneStrategy(report.details)

\* a problem whose second test does not parse was graded after its first test parsed
C14_Witness ==
    /\ Returned
    /\ Len(problem.tests) = 2
    /\ parse_case_ok(problem.id, problem.tests[1])
    /\ ~parse_case_ok(problem.id, problem.tests[2])
    /\ ~structured_cases.ok
    /\ Len(report.details) = 2

StdinDetails == pc = "stdin_loop" \/ (Returned /\ path = "stdin" /\ report.keys = ReportKeys)

\* C15 as stated: once the stdin path returned, every test was run exactly once,
\* in order, on its raw input, and passed says the run succeeded with equal
\* stripped output.
C15_EveryTestRunOnce ==
    Returned /\ path = "stdin" /\ report.keys = ReportKeys =>
        /\ Len(runs) = Len(problem.tests)
        /\ \A i \in DOMAIN runs :
              /\ runs[i].test = i
              /\ runs[i].stdin = problem.tests[i].input
              /\ report.details[i].passed <=>
                    /\ runs[i].res.success
                    /\ strip(runs[i].res.output) = strip(problem.tests[i].output)

\* C15, amended: the tests are run in order, at most once each, on their raw
\* input; a test that was run passed exactly when its run succeeded with equal
\* stripped output; a test that was not run comes after a compile error and failed.
C15_TestsRunInOrderUntilCompileError ==
    /\ \A i \in DOMAIN runs :
          /\ runs[i].test = i
          /\ runs[i].stdin = problem.tests[i].input
    /\ StdinDetails =>
          \A j \in DOMAIN results :
              IF j <= Len(runs)
              THEN results[j].passed <=>
                      /\ runs[j].res.success
                      /\ ~runs[j].res.compile_error
                      /\ ~runs[j].res.timeout
                      /\ strip(runs[j].res.output) = strip(problem.tests[j].output)
              ELSE /\ ~results[j].passed
                   /\ \E i \in 1..(j - 1) : runs[i].res.compile_error
    /\ Returned /\ path = "stdin" /\ report.keys = ReportKeys =>
          /\ report.details = results
          /\ Len(results) = Len(problem.tests)
          /\ \/ Len(runs) = Len(problem.tests)
             \/ runs[Len(runs)].res.compile_error

\* two tests were run; the first passed on output that differs from the expected
\* text only by surrounding whitespace, the second did not pass
C15_Witness ==
    /\ Returned /\ path = "stdin"
    /\ Len(runs) = 2
    /\ runs[1].res.output # problem.tests[1].output
    /\ report.details[1].passed
    /\ ~report.details[2].passed

\* the harness process got past its import and getattr lines and has ended
HarnessEnded ==
    /\ pc = "parse"
    /\ hidx >= 1 \/ \E n \in DOMAIN stdout : stdout[n].src = "harness"

HarnessResults(i) ==
    {n \in DOMAIN stdout :
        /\ stdout[n].src = "harness"
        /\ IsResultLine(stdout[n].parts)
        /\ Len(stdout[n].parts) >= 3
        /\ stdout[n].parts[2] = IndexText(i)
        /\ stdout[n].parts[3] \in {"PASS", "FAIL", "ERROR"}}

\* C16: when the harness process has ended, it has written exactly one RESULT
\* line of status PASS, FAIL or ERROR for every case index, whether the
\* candidate's function returned, raised, was missing or ended the process.
C16_OneResultPerCase ==
    HarnessEnded =>
        \A i \in 0..(Len(structured_cases.cases) - 1) : Cardinality(HarnessResults(i)) = 1

\* C20: a returned report has 0 <= passed <= total, and a structured report
\* counts no more passes than the cases the candidate's function answered with
\* the expected value.
C20_PassedWithinTotal ==
    Returned =>
        /\ 0 <= report.passed
        /\ report.passed <= report.total
        /\ path = "structured" =>
              report.passed <= Cardinality({i \in DOMAIN verdicts : verdicts[i] = "PASS"})

\* ------------------------------------------------- concurrent invocations
\* Invocations of cpp_runner.run and of grade_structured_python that run at the
\* same time on one machine. A file is modelled by the invocation whose text it
\* holds (0: no such file).
NumCalls == 2
MaxDirs == 2
MaxInvocations == 2

CallIds == 1..NumCalls
DirNames == 1..MaxDirs
Kinds == {"cpp_runner", "grade_structured_python"}
FileNames == {"main.cpp", "a.out", "solution.py", "runner.py"}

NoFiles == [f \in FileNames |-> 0]
NoDir == [exists |-> FALSE, creator |-> 0, files |-> NoFiles]

mkdtemp_TakesAnyName(files_system) == DirNames

\* tempfile.mkdtemp: the directory is made under a name nothing has (os.mkdir
\* fails on an existing name and another name is drawn)
mkdtemp(files_system) == {d \in DirNames : ~files_system[d].exists}

\* what the invocation gives when it is the only one on the machine
Alone(c) == c

InitConcurrent ==
    /\ GradingIdle
    /\ ScoresIdle
    /\ TimerIdle
    /\ BoilerplateIdle
    /\ LiteralsIdle
    /\ fs = [d \in DirNames |-> NoDir]
    /\ calls \in [CallIds -> [kind : Kinds, pc : {"idle"}, tmpdir : {0}, n : {0},
                              output : {<<>>}, strayed : {FALSE}]]

\* with tempfile.TemporaryDirectory() as tmpdir
EnterTmpdir(c) ==
    /\ calls[c].pc = "idle"
    /\ calls[c].n < MaxInvocations
    /\ \E d \in mkdtemp(fs) :
          /\ fs' = [fs EXCEPT ![d] = [exists |-> TRUE, creator |-> c, files |-> NoFiles]]
          /\ calls' = [calls EXCEPT ![c].pc = "write", ![c].tmpdir = d]
    /\ UNCHANGED outside_concurrent

WriteInto(c, name) ==
    LET d == calls[c].tmpdir IN
    /\ fs' = [fs EXCEPT ![d].exists = TRUE, ![d].files[name] = c]
    /\ calls' = [calls EXCEPT ![c].pc = IF name = "solution.py" THEN "write_runner"
                                         ELSE "run",
                              ![c].strayed = @ \/ fs[d].creator # c]

\* code_path.write_text(code); sol_path.write_text(code)
WriteCode(c) ==
    /\ calls[c].pc = "write"
    /\ WriteInto(c, IF calls[c].kind = "cpp_runner" THEN "main.cpp" ELSE "solution.py")
    /\ UNCHANGED outside_concurrent

\* runner_path.write_text(runner_code)
WriteRunner(c) ==
    /\ calls[c].pc = "write_runner"
    /\ WriteInto(c, "runner.py")
    /\ UNCHANGED outside_concurrent

\* g++ main.cpp -o a.out with cwd = tmpdir
Compile(c) ==
    LET d == calls[c].tmpdir IN
    /\ calls[c].pc = "run"
    /\ calls[c].kind = "cpp_runner"
    /\ fs' = [fs EXCEPT ![d].files["a.out"] = fs[d].files["main.cpp"]]
    /\ calls' = [calls EXCEPT ![c].pc = "exec",
                              ![c].strayed = @ \/ fs[d].creator # c]
    /\ UNCHANGED outside_concurrent

\* ./a.out with cwd = tmpdir: the output is that of the program in the file
Execute(c) ==
    LET d == calls[c].tmpdir IN
    /\ calls[c].pc = "exec"
    /\ calls' = [calls EXCEPT ![c].pc = "cleanup",
                              ![c].output = Append(@, fs[d].files["a.out"])]
    /\ UNCHANGED <<fs, outside_concurrent>>

\* python3 runner.py with cwd = tmpdir: runner.py imports solution
RunHarness(c) ==
    LET d == calls[c].tmpdir
        ran == IF fs[d].files["runner.py"] = fs[d].files["solution.py"]
               THEN fs[d].files["runner.py"] ELSE 0 IN
    /\ calls[c].pc = "run"
    /\ calls[c].kind = "grade_structured_python"
    /\ calls' = [calls EXCEPT ![c].pc = "cleanup", ![c].output = Append(@, ran)]
    /\ UNCHANGED <<fs, outside_concurrent>>

\* the with block is left: the directory and its files are removed
Cleanup(c) ==
    /\ calls[c].pc = "cleanup"
    /\ fs' = [fs EXCEPT ![calls[c].tmpdir] = NoDir]
    /\ calls' = [calls EXCEPT ![c].pc = "idle", ![c].tmpdir = 0, ![c].n = @ + 1]
    /\ UNCHANGED outside_concurrent

NextConcurrent ==
    \/ \E c \in CallIds : EnterTmpdir(c)
    \/ \E c \in CallIds : WriteCode(c)
    \/ \E c \in CallIds : WriteRunner(c)
    \/ \E c \in CallIds : Compile(c)
    \/ \E c \in CallIds : Execute(c)
    \/ \E c \in CallIds : RunHarness(c)
    \/ \E c \in CallIds : Cleanup(c)

SpecConcurrent == InitConcurrent /\ [][NextConcurrent]_vars

Live(c) == calls[c].tmpdir # 0

\* C12: in every interleaving of concurrent invocations, each writes only into
\* directories it created, no two invocations that are under way hold the same
\* directory, and each obtains the output it obtains when run alone.
C12_CallsAreIsolated ==
    \A c \in CallIds :
        /\ ~calls[c].strayed
        /\ \A i \in DOMAIN calls[c].output : calls[c].output[i] = Alone(c)
        /\ Live(c) =>
              /\ fs[calls[c].tmpdir].exists
              /\ fs[calls[c].tmpdir].creator = c
              /\ \A f \in FileNames : fs[calls[c].tmpdir].files[f] \in {0, c}
              /\ \A o \in CallIds \ {c} : calls[o].tmpdir # calls[c].tmpdir

\* a native run and a structured Python grading are under way at the same time,
\* both past writing their files, after one of them already finished an invocation
C12_Witness ==
    /\ \A c \in CallIds : calls[c].pc \in {"run", "exec", "cleanup"}
    /\ \E c \in CallIds : calls[c].kind = "cpp_runner"
    /\ \E c \in CallIds : calls[c].kind = "grade_structured_python"
    /\ \E c \in CallIds : calls[c].n >= 1

\* --------------------------------------------------------- contest timer
MaxClock == 4
MaxVersion == 3

\* duration_seconds as the host sends it; 0 stands for None and for values <= 0
Durations == {0, 1, 2}

Max(a, b) == IF a >= b THEN a ELSE b

\* _sync_remaining_locked: remaining follows ends_at; at zero the timer stops
\* _sync_remaining_locked leaving ends_at in place when the time is up
_sync_remaining_locked_KeepsEnd(state, now) ==
    IF state.status = "running" /\ state.ends_at # NoEnd
    THEN LET remaining == Max(0, state.ends_at - now) IN
         IF remaining <= 0
         THEN [state EXCEPT !.remaining = remaining, !.status = "stopped"]
         ELSE [state EXCEPT !.remaining = remaining]
    ELSE state

_sync_remaining_locked(state, now) ==
    IF state.status = "running" /\ state.ends_at # NoEnd
    THEN LET remaining == Max(0, state.ends_at - now) IN
         IF remaining <= 0
         THEN [state EXCEPT !.remaining = remaining, !.status = "stopped",
                            !.ends_at = NoEnd]
         ELSE [state EXCEPT !.remaining = remaining]
    ELSE state

\* timer_task.is_alive()
is_alive(task) == \E t \in tasks : t.id = task

\* should_start_task = not timer_task or not timer_task.is_alive()
should_start_task(task) == task = 0 \/ ~is_alive(task)

InitTimer ==
    /\ GradingIdle
    /\ ScoresIdle
    /\ ConcurrentIdle
    /\ BoilerplateIdle
    /\ LiteralsIdle
    /\ TimerIdle

\* start_timer, the part under timer_lock (lines 234-250)
StartTimerLocked ==
    \E duration_seconds \in Durations :
        LET synced == _sync_remaining_locked(timer_state, clock)
            fallback == IF synced.remaining # 0 THEN synced.remaining ELSE synced.duration
            target_duration == IF duration_seconds <= 0 THEN fallback ELSE duration_seconds
        IN
        /\ timer_state.version < MaxVersion
        /\ IF target_duration <= 0
           THEN /\ timer_state' = synced
                /\ UNCHANGED pending
           ELSE /\ timer_state' = [status |-> "running", duration |-> target_duration,
                                   remaining |-> target_duration,
                                   ends_at |-> clock + target_duration,
                                   version |-> synced.version + 1]
                /\ pending' = pending \cup
                      {[current_version |-> synced.version + 1,
                        should_start_task |-> should_start_task(timer_task)]}
        /\ UNCHANGED <<timer_task, tasks, clock, spawned, submission, outside_timer>>

\* start_timer after the lock: broadcast_timer, then the task is started if
\* should_start_task (lines 251-253)
StartTimerReturns ==
    \E p \in pending :
        /\ pending' = pending \ {p}
        /\ timer_state' = _sync_remaining_locked(timer_state, clock)
        /\ IF p.should_start_task
           THEN /\ spawned' = spawned + 1
                /\ tasks' = tasks \cup {[id |-> spawned + 1, version |-> p.current_version]}
                /\ timer_task' = spawned + 1
           ELSE UNCHANGED <<spawned, tasks, timer_task>>
        /\ UNCHANGED <<clock, submission, outside_timer>>

\* pause_timer
PauseTimer ==
    /\ timer_state' = [_sync_remaining_locked(timer_state, clock)
                          EXCEPT !.status = "paused", !.ends_at = NoEnd]
    /\ UNCHANGED <<timer_task, tasks, pending, clock, spawned, submission, outside_timer>>

\* stop_timer
StopTimer ==
    /\ timer_state' = [timer_state EXCEPT !.status = "stopped", !.remaining = 0,
                                          !.ends_at = NoEnd]
    /\ UNCHANGED <<timer_task, tasks, pending, clock, spawned, submission, outside_timer>>

\* one round of timer_loop after its sleep: it ends when another start replaced
\* its version, and after the emit when the timer is no longer running
TimerLoopTick ==
    \E t \in tasks :
        IF t.version # timer_state.version
        THEN /\ tasks' = tasks \ {t}
             /\ UNCHANGED <<timer_state, timer_task, pending, clock, spawned, submission, outside_timer>>
        ELSE /\ timer_state' = _sync_remaining_locked(timer_state, clock)
             /\ tasks' = IF timer_state'.status # "running" THEN tasks \ {t} ELSE tasks
             /\ UNCHANGED <<timer_task, pending, clock, spawned, submission, outside_timer>>

\* get_timer_snapshot
GetTimerSnapshot ==
    /\ timer_state' = _sync_remaining_locked(timer_state, clock)
    /\ timer_state' # timer_state
    /\ UNCHANGED <<timer_task, tasks, pending, clock, spawned, submission, outside_timer>>

\* submit refusing only a stopped contest
submissions_open_UnlessStopped(timer_snapshot) == timer_snapshot.status # "stopped"

\* submit: timer_snapshot.get("status") != "running" answers 403
submissions_open(timer_snapshot) == timer_snapshot.status = "running"

\* submit up to its test of the timer: a payload that is incomplete is answered
\* 400; otherwise get_timer_snapshot() syncs the timer under the lock and the
\* request goes on only if the snapshot says running
SubmitArrives ==
    /\ submission.response # 0 \/ submission.pc = "none"
    /\ \E complete \in BOOLEAN :
          IF ~complete
          THEN /\ submission' = [pc |-> "answered", snapshot |-> "none", called |-> {},
                                 response |-> 400]
               /\ UNCHANGED timer_state
          ELSE /\ timer_state' = _sync_remaining_locked(timer_state, clock)
               /\ submission' =
                     IF submissions_open(timer_state')
                     THEN [pc |-> "grade", snapshot |-> timer_state'.status, called |-> {},
                           response |-> 0]
                     ELSE [pc |-> "answered", snapshot |-> timer_state'.status,
                           called |-> {}, response |-> 403]
    /\ UNCHANGED <<timer_task, tasks, pending, clock, spawned, outside_timer>>

\* submit: load_problem (404 when the problem is missing), then grade_submission
\* (400 when it reports an error)
SubmitGrades ==
    /\ submission.pc = "grade"
    /\ \E outcome \in {"missing", "error", "graded"} :
          submission' =
              CASE outcome = "missing" ->
                       [submission EXCEPT !.pc = "answered", !.response = 404]
                [] outcome = "error" ->
                       [submission EXCEPT !.pc = "answered", !.response = 400,
                                          !.called = @ \cup {"grade_submission"}]
                [] outcome = "graded" ->
                       [submission EXCEPT !.pc = "record",
                                          !.called = @ \cup {"grade_submission"}]
    /\ UNCHANGED <<timer_state, timer_task, tasks, pending, clock, spawned, outside_timer>>

\* submit: record_submission
SubmitRecords ==
    /\ submission.pc = "record"
    /\ submission' = [submission EXCEPT !.pc = "score",
                                        !.called = @ \cup {"record_submission"}]
    /\ UNCHANGED <<timer_state, timer_task, tasks, pending, clock, spawned, outside_timer>>

\* submit: update_user_score, the emits and the answer
SubmitScores ==
    /\ submission.pc = "score"
    /\ submission' = [submission EXCEPT !.pc = "answered", !.response = 200,
                                        !.called = @ \cup {"update_user_score"}]
    /\ UNCHANGED <<timer_state, timer_task, tasks, pending, clock, spawned, outside_timer>>

\* time passes
ClockAdvances ==
    /\ clock < MaxClock
    /\ clock' = clock + 1
    /\ UNCHANGED <<timer_state, timer_task, tasks, pending, spawned, submission, outside_timer>>

NextTimer ==
    \/ StartTimerLocked
    \/ StartTimerReturns
    \/ PauseTimer
    \/ StopTimer
    \/ TimerLoopTick
    \/ GetTimerSnapshot
    \/ SubmitArrives
    \/ SubmitGrades
    \/ SubmitRecords
    \/ SubmitScores
    \/ ClockAdvances

SpecTimer == InitTimer /\ [][NextTimer]_vars

\* C19: whenever the timer status is running, a timer_loop task of the current
\* version is alive, or a start_timer call that has not yet returned is about to
\* start one.
C19_RunningHasLoop ==
    timer_state.status = "running" =>
        \/ \E t \in tasks : t.version = timer_state.version
        \/ \E p \in pending :
              p.current_version = timer_state.version /\ p.should_start_task

\* ------------------------------------------------------ language boilerplate
\* A code text is a sequence of atoms: single characters, and the words the
\* functions search for, each taken as one atom.
MaxCode == 3

JAVA_IMPORT_LINE == "import java.util.*;"
CPP_INCLUDE_LINE == "#include <bits/stdc++.h>"
PYTHON_IMPORT_LINE == "from typing import List"

CodeAtoms ==
    {"\n", "\r", " ", "x", "package ", "import ", "import java.util", "#include",
     CPP_INCLUDE_LINE, "List[", "from typing import", "import typing"}

Codes == SeqsUpTo(CodeAtoms, MaxCode)

\* needle in code, for the needles the functions search for
Contains(code, atoms) == \E i \in DOMAIN code : code[i] \in atoms

RECURSIVE splitlines_from(_, _, _, _)
\* str.splitlines from position i: "\n", "\r" and "\r\n" end a line and are dropped
splitlines_from(code, i, line, lines) ==
    IF i > Len(code)
    THEN IF line = <<>> THEN lines ELSE Append(lines, line)
    ELSE IF code[i] = "\r" /\ i < Len(code) /\ code[i + 1] = "\n"
    THEN splitlines_from(code, i + 2, <<>>, Append(lines, line))
    ELSE IF code[i] \in {"\n", "\r"}
    THEN splitlines_from(code, i + 1, <<>>, Append(lines, line))
    ELSE splitlines_from(code, i + 1, Append(line, code[i]), lines)

splitlines(code) == splitlines_from(code, 1, <<>>, <<>>)

RECURSIVE join(_)
\* "\n".join(lines)
join(lines) ==
    IF lines = <<>> THEN <<>>
    ELSE IF Len(lines) = 1 THEN lines[1]
    ELSE lines[1] \o <<"\n">> \o join(Tail(lines))

\* stripped.startswith("package ") or stripped.startswith("import ")
IsDeclaration(stripped) ==
    /\ stripped # <<>>
    /\ stripped[1] \in {"package ", "import ", "import java.util", "import typing",
                        JAVA_IMPORT_LINE}

RECURSIVE insert_at_from(_, _, _)
\* the loop of ensure_java_imports from line idx on (idx counts from 1 here)
insert_at_from(lines, idx, insert_at) ==
    IF idx > Len(lines) THEN insert_at
    ELSE IF IsDeclaration(strip(lines[idx])) \/ strip(lines[idx]) = <<>>
    THEN insert_at_from(lines, idx + 1, idx)
    ELSE insert_at

\* lines.insert(insert_at, line)
insert(lines, insert_at, line) ==
    SubSeq(lines, 1, insert_at) \o <<line>> \o SubSeq(lines, insert_at + 1, Len(lines))

endswith_newline(code) == code # <<>> /\ code[Len(code)] = "\n"

ensure_java_imports(code) ==
    IF Contains(code, {"import java.util", JAVA_IMPORT_LINE})
    THEN code
    ELSE LET lines == splitlines(code)
             insert_at == insert_at_from(lines, 1, 0)
         IN join(insert(lines, insert_at, <<JAVA_IMPORT_LINE>>))
               \o (IF endswith_newline(code) THEN <<"\n">> ELSE <<>>)

\* ensure_cpp_includes without its test for the line being there already
ensure_cpp_includes_AlwaysAdds(code) ==
    IF code # <<>> /\ code[1] = "#include"
    THEN <<CPP_INCLUDE_LINE, "\n">> \o code
    ELSE <<CPP_INCLUDE_LINE, "\n", "\n">> \o code

ensure_cpp_includes(code) ==
    IF Contains(code, {CPP_INCLUDE_LINE})
    THEN code
    ELSE IF code # <<>> /\ code[1] = "#include"
    THEN <<CPP_INCLUDE_LINE, "\n">> \o code
    ELSE <<CPP_INCLUDE_LINE, "\n", "\n">> \o code

ensure_python_imports(code) ==
    IF /\ Contains(code, {"List["})
       /\ ~Contains(code, {"from typing import", PYTHON_IMPORT_LINE})
       /\ ~Contains(code, {"import typing"})
    THEN <<PYTHON_IMPORT_LINE, "\n", "\n">> \o code
    ELSE code

apply_language_boilerplate(lang, code) ==
    LET key == lower(strip(lang)) IN
    IF key = JAVA THEN ensure_java_imports(code)
    ELSE IF key \in {CPLUSPLUS, CPP, C} THEN ensure_cpp_includes(code)
    ELSE IF key \in {PYTHON, PY} THEN ensure_python_imports(code)
    ELSE code

InitBoilerplate ==
    /\ GradingIdle
    /\ ScoresIdle
    /\ ConcurrentIdle
    /\ TimerIdle
    /\ LiteralsIdle
    /\ bp_language \in Languages
    /\ bp_code \in Codes
    /\ prepared = <<>>
    /\ prepared_again = <<>>
    /\ bp_pc = "called"

\* prepared_code = apply_language_boilerplate(lang_key, code or "")
ApplyBoilerplate ==
    /\ bp_pc = "called"
    /\ prepared' = apply_language_boilerplate(bp_language, bp_code)
    /\ bp_pc' = "returned"
    /\ UNCHANGED <<bp_language, bp_code, prepared_again, outside_boilerplate>>

\* apply_language_boilerplate on its own result, for the same language
ApplyAgain ==
    /\ bp_pc = "returned"
    /\ prepared_again' = apply_language_boilerplate(bp_language, prepared)
    /\ bp_pc' = "applied_again"
    /\ UNCHANGED <<bp_language, bp_code, prepared, outside_boilerplate>>

NextBoilerplate ==
    \/ ApplyBoilerplate
    \/ ApplyAgain

SpecBoilerplate == InitBoilerplate /\ [][NextBoilerplate]_vars

DeclarationLines == {JAVA_IMPORT_LINE, CPP_INCLUDE_LINE, PYTHON_IMPORT_LINE}

\* one declaration line, with its line end and at most one blank line, or set
\* off from the line before it
Insertions ==
    UNION { { <<d>>, <<d, "\n">>, <<d, "\n", "\n">>, <<"\n", d>> } : d \in DeclarationLines }

InsertedInto(code, out) ==
    \E at \in 0..Len(code) : \E ins \in Insertions :
        out = SubSeq(code, 1, at) \o ins \o SubSeq(code, at + 1, Len(code))

\* C18: what apply_language_boilerplate returns is its code argument, unchanged
\* or with one declaration line (and at most one blank line) inserted; every
\* character of the argument, line terminators included, is kept in order.
C18_OnlyAddsDeclaration ==
    bp_pc = "returned" => prepared = bp_code \/ InsertedInto(bp_code, prepared)

\* ---------------------------------------------------------- harness literals
\* A value carries its Python type; a literal is a text (a sequence of
\* characters) or a form applied to literals.
MaxStr == 2
MaxItems == 2

IntV(n) == [t |-> "int", v |-> n]
StrV(chars) == [t |-> "str", v |-> chars]
BoolV(b) == [t |-> "bool", v |-> b]
ListV(xs) == [t |-> "list", v |-> xs]

\* the literal does not compile, or evaluating it raises
Unreadable == [t |-> "unreadable", v |-> <<>>]

StrChars == {"a", "\"", "\\", "\n"}

IntValues == {IntV(n) : n \in {-1, 0, 12}}
StrValues == {StrV(chars) : chars \in SeqsUpTo(StrChars, MaxStr)}
BoolValues == {BoolV(b) : b \in BOOLEAN}
ElementStrs == {StrV(chars) : chars \in SeqsUpTo(StrChars, 1)}
RowsOfInts == {ListV(<<>>), ListV(<<IntV(0)>>), ListV(<<IntV(12), IntV(-1)>>)}
RowsOfStrs ==
    {ListV(<<>>), ListV(<<StrV(<<"a">>)>>), ListV(<<StrV(<<"\n">>), StrV(<<"\"">>)>>)}

ListsOf(elements) == {ListV(xs) : xs \in SeqsUpTo(elements, MaxItems)}

Text(chars) == [form |-> "text", text |-> chars, items |-> <<>>]
Form(name, items) == [form |-> name, text |-> <<>>, items |-> items]

DecimalDigits == <<"0", "1", "2", "3", "4", "5", "6", "7", "8", "9">>

RECURSIVE digits_of(_)
digits_of(n) ==
    IF n < 10 THEN <<DecimalDigits[n + 1]>>
    ELSE digits_of(n \div 10) \o <<DecimalDigits[(n % 10) + 1]>>

\* str(x) of an int or a bool
str(x) ==
    IF x.t = "bool" THEN IF x.v THEN <<"T", "r", "u", "e">> ELSE <<"F", "a", "l", "s", "e">>
    ELSE IF x.v < 0 THEN <<"-">> \o digits_of(0 - x.v)
    ELSE digits_of(x.v)

RECURSIVE replace(_, _, _)
\* str.replace(old, new) for a one-character old
replace(chars, old, new) ==
    IF chars = <<>> THEN <<>>
    ELSE (IF Head(chars) = old THEN new ELSE <<Head(chars)>>) \o replace(Tail(chars), old, new)

\* isinstance(x, int): a bool is an int
isinstance_int(x) == x.t \in {"int", "bool"}
isinstance_str(x) == x.t = "str"
isinstance_list(x) == x.t = "list"

\* all(isinstance(x, int) for x in val), and so on
all_int(xs) == \A i \in DOMAIN xs : isinstance_int(xs[i])
all_str(xs) == \A i \in DOMAIN xs : isinstance_str(xs[i])
all_rows_of_int(xs) == \A i \in DOMAIN xs : isinstance_list(xs[i]) /\ all_int(xs[i].v)
all_rows_of_str(xs) == \A i \in DOMAIN xs : isinstance_list(xs[i]) /\ all_str(xs[i].v)

\* java_literal on a string
java_string(val) ==
    Text(<<"\"">> \o replace(replace(val.v, "\\", <<"\\", "\\">>), "\"", <<"\\", "\"">>)
            \o <<"\"">>)

Null == Text(<<"n", "u", "l", "l">>)

java_literal(val) ==
    IF isinstance_str(val) THEN java_string(val)
    ELSE IF val.t = "bool"
    THEN Text(IF val.v THEN <<"t", "r", "u", "e">> ELSE <<"f", "a", "l", "s", "e">>)
    ELSE IF isinstance_int(val) THEN Text(str(val))
    ELSE IF isinstance_list(val)
    THEN IF val.v = <<>> THEN Form("new ArrayList<>()", <<>>)
         ELSE IF all_int(val.v)
         THEN Form("Arrays.asList", [i \in DOMAIN val.v |-> Text(str(val.v[i]))])
         ELSE IF all_str(val.v)
         THEN Form("Arrays.asList", [i \in DOMAIN val.v |-> java_string(val.v[i])])
         ELSE IF all_rows_of_int(val.v)
         THEN Form("new int[][]",
                   [i \in DOMAIN val.v |->
                       Form("new int[]",
                            [j \in DOMAIN val.v[i].v |-> Text(str(val.v[i].v[j]))])])
         ELSE IF all_rows_of_str(val.v)
         THEN Form("new String[][]",
                   [i \in DOMAIN val.v |->
                       Form("new String[]",
                            [j \in DOMAIN val.v[i].v |-> java_string(val.v[i].v[j])])])
         ELSE Null
    ELSE Null

\* json.dumps escapes the quote, the backslash and the control characters
json_string(val) ==
    Text(<<"\"">>
            \o replace(replace(replace(val.v, "\\", <<"\\", "\\">>), "\"", <<"\\", "\"">>),
                       "\n", <<"\\", "n">>)
            \o <<"\"">>)

RECURSIVE json_dumps(_)
json_dumps(val) ==
    IF isinstance_str(val) THEN json_string(val)
    ELSE IF val.t = "bool"
    THEN Text(IF val.v THEN <<"t", "r", "u", "e">> ELSE <<"f", "a", "l", "s", "e">>)
    ELSE IF isinstance_int(val) THEN Text(str(val))
    ELSE Form("[]", [i \in DOMAIN val.v |-> json_dumps(val.v[i])])

RECURSIVE read_quoted_from(_, _, _)
\* a string literal of Java or Python from position i on: a quote ends it, a
\* backslash takes the next character, a line break is not allowed inside
read_quoted_from(text, i, chars) ==
    IF i > Len(text) THEN Unreadable
    ELSE IF text[i] = "\"" THEN (IF i = Len(text) THEN StrV(chars) ELSE Unreadable)
    ELSE IF text[i] = "\n" THEN Unreadable
    ELSE IF text[i] = "\\"
    THEN IF i = Len(text) THEN Unreadable
         ELSE IF text[i + 1] \in {"\\", "\""}
         THEN read_quoted_from(text, i + 2, Append(chars, text[i + 1]))
         ELSE IF text[i + 1] = "n"
         THEN read_quoted_from(text, i + 2, Append(chars, "\n"))
         ELSE Unreadable
    ELSE read_quoted_from(text, i + 1, Append(chars, text[i]))

IsDigits(text) ==
    text # <<>> /\ \A i \in DOMAIN text : \E d \in DOMAIN DecimalDigits : DecimalDigits[d] = text[i]

RECURSIVE number_of(_)
number_of(text) ==
    IF text = <<>> THEN 0
    ELSE 10 * number_of(SubSeq(text, 1, Len(text) - 1))
            + (CHOOSE d \in 0..9 : DecimalDigits[d + 1] = text[Len(text)])

\* an integer literal, with its sign
read_number(text) ==
    IF IsDigits(text) THEN IntV(number_of(text))
    ELSE IF text # <<>> /\ Head(text) = "-" /\ IsDigits(Tail(text))
    THEN IntV(0 - number_of(Tail(text)))
    ELSE Unreadable

\* a text as the target language reads it; the words for the booleans differ
read_text(text, true_word, false_word) ==
    IF text # <<>> /\ Head(text) = "\"" THEN read_quoted_from(text, 2, <<>>)
    ELSE IF text = true_word THEN BoolV(TRUE)
    ELSE IF text = false_word THEN BoolV(FALSE)
    ELSE read_number(text)

RECURSIVE read_literal(_, _, _)
\* the value a literal denotes where the harness source embeds it
read_literal(lit, true_word, false_word) ==
    IF lit.form = "text" THEN read_text(lit.text, true_word, false_word)
    ELSE LET xs == [i \in DOMAIN lit.items |->
                        read_literal(lit.items[i], true_word, false_word)] IN
         IF \E i \in DOMAIN xs : xs[i].t = "unreadable" THEN Unreadable ELSE ListV(xs)

\* javac and the JVM on the literal in Harness.java
java_read(lit) == read_literal(lit, <<"t", "r", "u", "e">>, <<"f", "a", "l", "s", "e">>)

\* python3 on the literal in runner.py
python_read(lit) == read_literal(lit, <<"T", "r", "u", "e">>, <<"F", "a", "l", "s", "e">>)

InitLiterals ==
    /\ GradingIdle
    /\ ScoresIdle
    /\ ConcurrentIdle
    /\ TimerIdle
    /\ BoilerplateIdle
    /\ \/ value \in IntValues
       \/ value \in StrValues
       \/ value \in BoolValues
       \/ value \in ListsOf(IntValues)
       \/ value \in ListsOf(ElementStrs)
       \/ value \in ListsOf(BoolValues)
       \/ value \in ListsOf(RowsOfInts)
       \/ value \in ListsOf(RowsOfStrs)
    /\ target \in {JAVA, PYTHON}
    /\ literal = <<>>
    /\ read_back = <<>>
    /\ lit_pc = "value"

\* build_java_harness calls java_literal; grade_structured_python formats
\* json.dumps(cases) into runner.py
RenderLiteral ==
    /\ lit_pc = "value"
    /\ literal' = IF target = JAVA THEN java_literal(value) ELSE json_dumps(value)
    /\ lit_pc' = "rendered"
    /\ UNCHANGED <<value, target, read_back, outside_literals>>

\* the harness is compiled and run
ReadLiteral ==
    /\ lit_pc = "rendered"
    /\ read_back' = IF target = JAVA THEN java_read(literal) ELSE python_read(literal)
    /\ lit_pc' = "read"
    /\ UNCHANGED <<value, target, literal, outside_literals>>

NextLiterals ==
    \/ RenderLiteral
    \/ ReadLiteral

SpecLiterals == InitLiterals /\ [][NextLiterals]_vars

\* C17: the literal written for a value of the supported universe denotes, in
\* the target language, a value structurally equal to the original.
C17_LiteralRoundTrip ==
    lit_pc = "read" => read_back.t = value.t /\ read_back.v = value.v

\* ------------------------------------------------- further grading claims
SyntheticDetail ==
    [passed |-> FALSE, error |-> CompilerStderr, compile_error |-> TRUE,
     timeout |-> FALSE, keys |-> {"passed", "error", "compile_error"}]

\* C22: when javac fails on Main.java with Harness.java, the harness is never
\* run, the report is passed = 0, total = len(cases), compile_error = true with
\* one detail (not passed, compile_error, the compiler's stderr), and nothing is
\* graded on the stdin path.
C22_JavaCompileFailureReport ==
    compile_proc = "fail" =>
        /\ pc = "returned"
        /\ report.kind = "report"
        /\ report.passed = 0
        /\ report.total = Len(structured_cases.cases)
        /\ report.compile_error
        /\ report.details = <<SyntheticDetail>>
        /\ procs.harness = 0 /\ procs.candidate = 0
        /\ runs = <<>> /\ results = <<>> /\ ~fellBack

\* javac failed on a candidate graded against two cases
C22_Witness ==
    /\ compile_proc = "fail"
    /\ lang_key = JAVA
    /\ Len(structured_cases.cases) = 2

\* the names of one language
AliasesOf(key) ==
    IF key \in {PYTHON, PY} THEN {PYTHON, PY}
    ELSE IF key \in {CPLUSPLUS, CPP, C} THEN {CPLUSPLUS, CPP, C}
    ELSE {key}

\* C24: every name of the submission's language (an alias, or a spelling that
\* differs in letter case or surrounding whitespace) selects the same runner and
\* the same testing strategy as the name that was given.
C24_AliasesGradedAlike ==
    pc # "start" =>
        \A other \in Languages :
            lower(strip(other)) \in AliasesOf(lang_key) =>
                /\ RUNNERS(lower(strip(other))) = RUNNERS(lang_key)
                /\ chooses_structured(lower(strip(other)), build_structured_cases(problem))
                      = chooses_structured(lang_key, structured_cases)

\* C25: in a returned report a test whose run exceeded the time limit is not
\* passed and has timeout set, a harness run that exceeded it leaves a detail
\* with timeout set, and a test that ended with a non-zero exit inside the
\* limit has no timeout.
C25_TimeoutsAreMarked ==
    Returned =>
        /\ path = "stdin" =>
              \A i \in DOMAIN runs :
                  /\ runs[i].exec = "timeout" =>
                        ~report.details[i].passed /\ report.details[i].timeout
                  /\ runs[i].exec = "nonzero" => ~report.details[i].timeout
        /\ procs.expired >= 1 =>
              \E i \in DOMAIN report.details :
                  ~report.details[i].passed /\ report.details[i].timeout


\* -------------------------------------------------- further literal claims
\* a string with only the backslash and the double quote escaped, in quotes
RECURSIVE escaped(_)
escaped(chars) ==
    IF chars = <<>> THEN <<>>
    ELSE (IF Head(chars) \in {"\\", "\""} THEN <<"\\", Head(chars)>> ELSE <<Head(chars)>>)
            \o escaped(Tail(chars))

\* the Java text of a string, a boolean or an integer
IsScalarLiteral(val, lit) ==
    /\ lit.form = "text"
    /\ CASE val.t = "str" -> lit.text = <<"\"">> \o escaped(val.v) \o <<"\"">>
         [] val.t = "bool" ->
                lit.text = IF val.v THEN <<"t", "r", "u", "e">> ELSE <<"f", "a", "l", "s", "e">>
         [] val.t = "int" -> read_number(lit.text) = IntV(val.v)
         [] OTHER -> FALSE

\* a sequence whose elements are all of one of the scalar types
IsFlat(xs) ==
    \E type \in {"int", "str", "bool"} : \A i \in DOMAIN xs : xs[i].t = type

\* the Java literal of a sequence: the empty collection, a collection of
\* scalars, or an array of arrays of scalars
IsSequenceLiteral(val, lit) ==
    IF val.v = <<>> THEN lit = Form("new ArrayList<>()", <<>>)
    ELSE IF IsFlat(val.v)
    THEN /\ lit.form = "Arrays.asList"
         /\ DOMAIN lit.items = DOMAIN val.v
         /\ \A i \in DOMAIN val.v : IsScalarLiteral(val.v[i], lit.items[i])
    ELSE /\ lit.form \in {"new int[][]", "new String[][]"}
         /\ DOMAIN lit.items = DOMAIN val.v
         /\ \A i \in DOMAIN val.v :
               /\ lit.items[i].form \in {"new int[]", "new String[]"}
               /\ DOMAIN lit.items[i].items = DOMAIN val.v[i].v
               /\ \A j \in DOMAIN val.v[i].v :
                     IsScalarLiteral(val.v[i].v[j], lit.items[i].items[j])

\* C23: java_literal writes a string quoted with only the backslash and the
\* double quote escaped, a boolean (alone or as an element of a sequence) as
\* true or false, an integer in decimal, the empty sequence as the empty
\* collection and the supported sequences as collection or array literals; no
\* value of these shapes becomes null.
C23_JavaLiteralShapes ==
    (target = JAVA /\ lit_pc # "value") =>
        /\ literal # Null
        /\ IF value.t = "list" THEN IsSequenceLiteral(value, literal)
           ELSE IsScalarLiteral(value, literal)


\* ---------------------------------------------- further boilerplate claims
\* C28: apply_language_boilerplate is idempotent: given its own result and the
\* same language, it returns that result unchanged.
C28_BoilerplateIdempotent ==
    bp_pc = "applied_again" => prepared_again = prepared

\* the first application inserted a declaration, and the second one has run
C28_Witness ==
    /\ bp_pc = "applied_again"
    /\ prepared # bp_code
    /\ Len(bp_code) = MaxCode


\* --------------------------------------------------- further timer claims
\* the timer state as any reader finds it when timer_lock is free
TimerStateConsistent ==
    /\ timer_state.status \in {"stopped", "running", "paused"}
    /\ (timer_state.ends_at # NoEnd) <=> (timer_state.status = "running")
    /\ 0 <= timer_state.remaining
    /\ timer_state.remaining <= timer_state.duration

\* C26: whenever timer_lock is free, status is stopped, running or paused,
\* ends_at is set exactly when status is running, 0 <= remaining <= duration,
\* and no step lowers version.
C26_TimerInvariants ==
    /\ []TimerStateConsistent
    /\ [][timer_state'.version >= timer_state.version]_vars

\* a timer paused part of the way through, after it was started more than once
C26_Witness ==
    /\ timer_state.status = "paused"
    /\ 0 < timer_state.remaining
    /\ timer_state.remaining < timer_state.duration
    /\ timer_state.version >= 2

\* C27: a submit request calls grade_submission, record_submission and
\* update_user_score only if the snapshot it took (after the sync) said
\* running; with any other snapshot it answers 403 and calls none of them.
C27_SubmitOnlyWhileRunning ==
    /\ submission.called # {} => submission.snapshot = "running"
    /\ submission.snapshot \in {"stopped", "paused"} =>
          submission.response = 403 /\ submission.called = {}
    /\ submission.response = 403 => submission.snapshot \in {"stopped", "paused"}
    /\ submission.response = 200 =>
          submission.called = {"grade_submission", "record_submission", "update_user_score"}

\* a request graded, recorded and scored on a running snapshot, answered after
\* the host paused the timer
C27_Witness ==
    /\ submission.response = 200
    /\ submission.snapshot = "running"
    /\ submission.called = {"grade_submission", "record_submission", "update_user_score"}
    /\ timer_state.status = "paused"


\* ------------------------------------------------------------ score table
\* Submit requests of one user that reached record_submission; each runs
\* record_submission and then update_user_score on a connection of its own.
NumRequests == 2
MaxPassed == 2

RequestIds == 1..NumRequests
\* the problems the user submits for
ScoredProblems == {2, 4}

\* SELECT problem_id, MAX(passed_tests) AS best ... GROUP BY problem_id
select_best(rows) ==
    { [problem_id |-> p,
       best |-> CHOOSE b \in 0..MaxPassed :
                    /\ \E i \in DOMAIN rows : rows[i].problem_id = p /\ rows[i].passed_tests = b
                    /\ \A i \in DOMAIN rows : rows[i].problem_id = p => rows[i].passed_tests <= b]
      : p \in { rows[i].problem_id : i \in DOMAIN rows } }

RECURSIVE sum_best(_)
\* sum(row["best"] or 0 for row in cur.fetchall())
sum_best(fetched) ==
    IF fetched = {} THEN 0
    ELSE LET row == CHOOSE x \in fetched : TRUE IN row.best + sum_best(fetched \ {row})

InitScores ==
    /\ GradingIdle
    /\ ConcurrentIdle
    /\ TimerIdle
    /\ BoilerplateIdle
    /\ LiteralsIdle
    /\ submissions = <<>>
    /\ scores = <<>>
    /\ requests \in [RequestIds ->
                        [pc : {"record"}, problem_id : ScoredProblems,
                         passed_tests : 0..MaxPassed, total_score : {0}]]

\* record_submission: the INSERT and its commit
RecordSubmission ==
    \E r \in RequestIds :
        /\ requests[r].pc = "record"
        /\ submissions' = Append(submissions,
                                 [problem_id |-> requests[r].problem_id,
                                  passed_tests |-> requests[r].passed_tests])
        /\ requests' = [requests EXCEPT ![r].pc = "select"]
        /\ UNCHANGED <<scores, outside_scoring>>

\* update_user_score: the SELECT, read outside any transaction, and the sum
SelectBest ==
    \E r \in RequestIds :
        /\ requests[r].pc = "select"
        /\ requests' = [requests EXCEPT ![r].pc = "write",
                                        ![r].total_score = sum_best(select_best(submissions))]
        /\ UNCHANGED <<submissions, scores, outside_scoring>>

\* update_user_score: INSERT ... ON CONFLICT DO UPDATE of the total, and commit
WriteScore ==
    \E r \in RequestIds :
        /\ requests[r].pc = "write"
        /\ scores' = <<requests[r].total_score>>
        /\ requests' = [requests EXCEPT ![r].pc = "done"]
        /\ UNCHANGED <<submissions, outside_scoring>>

NextScores ==
    \/ RecordSubmission
    \/ SelectBest
    \/ WriteScore

SpecScores == InitScores /\ [][NextScores]_vars

\* the largest passed_tests among the recorded submissions for a problem
BestOf(p) ==
    CHOOSE b \in 0..MaxPassed :
        /\ \A i \in DOMAIN submissions :
               submissions[i].problem_id = p => submissions[i].passed_tests <= b
        /\ b = 0 \/ \E i \in DOMAIN submissions :
               submissions[i].problem_id = p /\ submissions[i].passed_tests = b

RECURSIVE TotalOver(_)
TotalOver(problems) ==
    IF problems = {} THEN 0
    ELSE LET p == CHOOSE x \in problems : TRUE IN BestOf(p) + TotalOver(problems \ {p})

\* C21: once every submit request of the user has completed, in whatever order
\* their record_submission and update_user_score steps ran, total_score is the
\* sum over the problems of the largest passed_tests among the user's recorded
\* submissions.
C21_TotalIsSumOfBest ==
    (\A r \in RequestIds : requests[r].pc = "done") =>
        scores = <<TotalOver(ScoredProblems)>>

====
